---- MODULE Spec2Model ----
(***************************************************************************)
(* A model of the AI Research Assistant (TamirG765/AI-Research-Assistant).  *)
(*                                                                         *)
(* The module holds several state machines over one set of variables, one  *)
(* per component of the repository:                                        *)
(*   Spec          backend.py   the sequential and the parallel workflow   *)
(*   FairSpec      backend.py   the same, with the scheduling's fairness   *)
(*   SpecInterview agents.py    InterviewAgent.conduct_interview           *)
(*   SpecReport    agents.py    ReportWriter._compile_report               *)
(*   SpecServices  services.py  the lazy client handles, validate_services *)
(*   SpecRetry     utils.py     retry_with_backoff                         *)
(*   SpecSanitize  utils.py     sanitize_filename                          *)
(*   SpecKeys      utils.py     StreamlitAPIKeyManager.get_api_key         *)
(*   SpecUI        streamlit_app.py  the script runs of one session        *)
(* Each specification starts the variables of the other machines at a      *)
(* fixed idle value and leaves them unchanged.                             *)
(***************************************************************************)
EXTENDS Integers, Sequences, FiniteSets, TLC

VARIABLES
    \* ---- backend.py: one run of run_research
    parallel,       \* which orchestrator WorkflowFactory.create_workflow built
    max_workers,    \* ParallelResearchWorkflow.max_workers
    supplied,       \* the WorkflowCallbacks slots that are not None
    pc,             \* position of the orchestrating thread in run_research
    analysts,       \* the list returned by _generate_analysts
    i,              \* sequential loop: number of analysts already iterated
    sections,       \* the sections list under construction
    completed,      \* parallel loop: the completed counter
    queue,          \* executor: submitted work items no worker has taken yet
    running,        \* executor: interviews executing on a worker thread
    outcome,        \* per analyst index: how conduct_interview ended
    handled,        \* parallel loop: futures as_completed has yielded
    progressLog,    \* values passed to callbacks.on_progress, in order
    icLog,          \* arguments passed to callbacks.on_interview_complete
    scLog,          \* arguments passed to callbacks.on_section_complete
    acLog,          \* arguments passed to callbacks.on_analyst_created
    errLog,         \* arguments passed to callbacks.on_error
    cbFaults,       \* callback invocations that raised, as <<slot, index>>
    reportCalls,    \* the sections lists write_report was called with
    raised,         \* the exception run_research raised to its caller
    results,        \* the ResearchResults run_research returned, if any
    \* ---- agents.py: one call of InterviewAgent.conduct_interview
    max_turns,      \* the max_turns argument
    ivpc,           \* position in conduct_interview
    turn,           \* the loop variable
    messages,       \* the transcript
    context,        \* the accumulated formatted search results
    calls,          \* the service calls issued so far, with how each ended
    searchLog,      \* per SearchService.search call: what the client did
    sectionArgs,    \* the context list _write_section was called with
    ivRaised,       \* the exception conduct_interview raised to its caller
    section,        \* the section text conduct_interview returned, if any
    \* ---- agents.py: one call of ReportWriter._compile_report
    introduction,   \* the introduction argument
    content,        \* the content argument
    conclusion,     \* the conclusion argument
    body_part,      \* the body the content was written around, if it was
    sources_part,   \* the sources text the content was written around
    rppc,           \* position: "call" before the call, "done" after
    final_report,   \* the value _compile_report returned
    \* ---- services.py: one ServiceManager and the threads that use it
    llm_api_key,        \* LLMService.api_key ("" when none was found)
    tavily_api_key,     \* SearchService.api_key
    tavily_available,   \* TavilySearchResults is not None (an import worked)
    llm_ctor_fails,     \* ChatOpenAI(...) raises
    search_ctor_fails,  \* TavilySearchResults(...) raises
    _llm,               \* LLMService._llm
    _search_tool,       \* SearchService._search_tool
    llm_constructed,    \* number of ChatOpenAI clients constructed
    search_constructed, \* number of TavilySearchResults clients constructed
    svphase,            \* "new", "setup", "generate", "run" or "failed"
    svparallel,         \* the run uses the parallel orchestrator
    svpc,               \* per thread: position in a property access
    svLast,             \* per thread: its last use of a client, how the
                        \* property ended, and what the use came to
    validation,         \* what validate_services last returned: <<>> or <<map>>
    \* ---- utils.py: one call of a function wrapped by retry_with_backoff
    max_retries,    \* the decorator's max_retries
    backoff_factor, \* the decorator's backoff_factor
    retry_count,    \* the wrapper's retry_count
    delay,          \* the wrapper's delay
    rtpc,           \* position of the wrapper: "loop", "returned", "raised"
    attempts,       \* how each execution of the wrapped function ended
    sleeps,         \* the arguments of time.sleep, in order
    rtResult,       \* what the wrapper returned or raised
    \* ---- utils.py: sanitize_filename
    filename,       \* the filename argument, a sequence of characters
    max_length,     \* the max_length argument
    snpc,           \* "call", "done" (applied), "again" (applied twice)
    safe_name,      \* the value returned
    reapplied,      \* the value returned for safe_name as the argument
    \* ---- utils.py: StreamlitAPIKeyManager.get_api_key
    env_name,       \* the env_name argument
    sidebar,        \* the sidebar argument
    secrets_readable,   \* st.secrets can be read (a secrets file exists)
    secret_entry,   \* st.secrets[env_name], None without such an entry
    env_value,      \* os.getenv(env_name), None when the variable is unset
    typed,          \* what st.text_input returns: "" when nothing is typed
    kmpc,           \* "call" before the call, "done" after
    prompts,        \* the containers the warning and the input were put in
    api_key,        \* the value returned
    \* ---- streamlit_app.py: one browser session of ResearchAssistantApp
    passes,             \* the script runs (render passes) made so far
    workflow_completed, \* st.session_state.workflow_completed
    ss_analysts,        \* st.session_state.analysts
    ss_final_report,    \* st.session_state.final_report
    research_results,   \* st.session_state.research_results
    error_message,      \* st.session_state.error_message
    lastRun,            \* what the last pass did: "none", "no keys", "ok",
                        \* "failed"
    rendered,           \* the blocks the last pass rendered, in order
    prevRendered        \* the blocks the pass before it rendered

wfVars == <<parallel, max_workers, supplied, pc, analysts, i, sections,
            completed, queue, running, outcome, handled, progressLog, icLog,
            scLog, acLog, errLog, cbFaults, reportCalls, raised, results>>

ivVars == <<max_turns, ivpc, turn, messages, context, calls, searchLog,
            sectionArgs, ivRaised, section>>

rpVars == <<introduction, content, conclusion, body_part, sources_part,
            rppc, final_report>>

svVars == <<llm_api_key, tavily_api_key, tavily_available, llm_ctor_fails,
            search_ctor_fails, _llm, _search_tool, llm_constructed,
            search_constructed, svphase, svparallel, svpc, svLast,
            validation>>

rtVars == <<max_retries, backoff_factor, retry_count, delay, rtpc, attempts,
            sleeps, rtResult>>

\* The machines of utils.py and of the UI.
snVars == <<filename, max_length, snpc, safe_name, reapplied>>

kmVars == <<env_name, sidebar, secrets_readable, secret_entry, env_value,
            typed, kmpc, prompts, api_key>>

uiVars == <<passes, workflow_completed, ss_analysts, ss_final_report,
            research_results, error_message, lastRun, rendered, prevRendered>>

utVars == <<rtVars, snVars, kmVars, uiVars>>

vars == <<wfVars, ivVars, rpVars, svVars, utVars>>

\* What each machine leaves alone.
outsideWorkflow == <<ivVars, rpVars, svVars, utVars>>
outsideInterview == <<wfVars, rpVars, svVars, utVars>>
outsideReport == <<wfVars, ivVars, svVars, utVars>>
outsideServices == <<wfVars, ivVars, rpVars, utVars>>
outsideRetry == <<wfVars, ivVars, rpVars, svVars, snVars, kmVars, uiVars>>
outsideSanitize == <<wfVars, ivVars, rpVars, svVars, rtVars, kmVars, uiVars>>
outsideKeys == <<wfVars, ivVars, rpVars, svVars, rtVars, snVars, uiVars>>
outsideUI == <<wfVars, ivVars, rpVars, svVars, rtVars, snVars, kmVars>>

(***************************************************************************)
(* Bounds of the model.                                                    *)
(***************************************************************************)
MaxAnalysts == 3
MaxWorkers == 2
MaxTurns == 3
MaxResults == 2
MaxPart == 2
MaxContent == 4
MaxThreads == 2
MaxRetries == 5
MaxBackoff == 3
MaxName == 4
MaxLength == 3
MaxPasses == 4

(***************************************************************************)
(* backend.py: values.                                                     *)
(***************************************************************************)
None == <<"None">>

\* WorkflowCallbacks: the five optional slots.
WorkflowCallbacks ==
    {"on_progress", "on_analyst_created", "on_interview_complete",
     "on_section_complete", "on_error"}

\* The slots whose invocation may raise in the model: the three delivered
\* during the interview phase. on_analyst_created and on_error are taken to
\* return normally.
RaisingSlots == {"on_progress", "on_interview_complete", "on_section_complete"}

\* The text conduct_interview returns for an analyst.
SectionText(name) == <<"section", name>>

\* str(e) of the exception an interview raises, and of one a callback raises.
InterviewError(name) == <<"interview error", name>>
CallbackError == <<"callback error">>

\* f"## Error\nInterview with {analyst.name} failed: {str(e)}"
ErrorSection(name, e) == <<"## Error\nInterview with ", name, " failed: ", e>>

\* f"Workflow failed: {str(e)}"
WorkflowFailed(e) == <<"Workflow failed: ", e>>

\* The final report write_report returns for a list of sections.
FinalReport(secs) == <<"report", secs>>

\* Mutant: the per-analyst share is not divided by the number of analysts.
InterviewProgressUnscaled(k, total) == 30 + (k * 40)

\* 30 + (k * 40 // total)
InterviewProgress(k, total) == 30 + ((k * 40) \div total)

\* _update_progress: the log of on_progress after a call with this value.
update_progress(log, value) ==
    IF "on_progress" \in supplied THEN Append(log, value) ELSE log

\* Mutant: the except clause re-raises without telling the error callback.
WorkflowFailureUnreported(e) ==
    /\ errLog' = errLog
    /\ raised' = e
    /\ pc' = "failed"

\* The except clause of run_research: the error callback gets the message
\* when supplied, and the exception is re-raised.
WorkflowFailure(e) ==
    /\ errLog' = IF "on_error" \in supplied
                 THEN Append(errLog, WorkflowFailed(e)) ELSE errLog
    /\ raised' = e
    /\ pc' = "failed"

(***************************************************************************)
(* backend.py: run_research, the spine.                                    *)
(***************************************************************************)
CheckpointValue ==
    [p10 |-> 10, p25 |-> 25, p30 |-> 30, p70 |-> 70, p85 |-> 85, p100 |-> 100]
CheckpointNext ==
    [p10 |-> "gen", p25 |-> "p30", p30 |-> "interviews", p70 |-> "p85",
     p85 |-> "report", p100 |-> "done"]

\* One of the six _update_progress calls of run_research; the last one is
\* followed by the construction and return of the ResearchResults.
Checkpoint ==
    /\ UNCHANGED outsideWorkflow
    /\ pc \in DOMAIN CheckpointValue
    /\ progressLog' = update_progress(progressLog, CheckpointValue[pc])
    /\ \E raises \in BOOLEAN :
        /\ raises => "on_progress" \in supplied
        /\ IF raises
           THEN /\ cbFaults' = cbFaults \cup {<<"on_progress", 0>>}
                /\ WorkflowFailure(CallbackError)
                /\ UNCHANGED results
           ELSE /\ pc' = CheckpointNext[pc]
                /\ results' = IF pc = "p100"
                              THEN <<[analysts |-> analysts,
                                      sections |-> sections,
                                      final_report |->
                                          FinalReport(reportCalls[1])]>>
                              ELSE results
                /\ UNCHANGED <<cbFaults, errLog, raised>>
    /\ UNCHANGED <<parallel, max_workers, supplied, analysts, i, sections,
                   completed, queue, running, outcome, handled, icLog, scLog,
                   acLog, reportCalls>>

\* _generate_analysts: the generator returns n analysts or raises.
generate_analysts ==
    /\ UNCHANGED outsideWorkflow
    /\ pc = "gen"
    /\ \/ \E n \in 0..MaxAnalysts :
            /\ analysts' = [k \in 1..n |-> k]
            /\ outcome' = [k \in 1..n |-> "none"]
            /\ acLog' = IF "on_analyst_created" \in supplied
                        THEN Append(acLog, [k \in 1..n |-> k]) ELSE acLog
            /\ pc' = "p25"
            /\ UNCHANGED <<errLog, raised>>
       \/ /\ WorkflowFailure(<<"analyst generation error">>)
          /\ UNCHANGED <<analysts, outcome, acLog>>
    /\ UNCHANGED <<parallel, max_workers, supplied, i, sections, completed,
                   queue, running, handled, progressLog, icLog, scLog,
                   cbFaults, reportCalls, results>>

\* _generate_report: write_report returns the report or raises.
generate_report ==
    /\ UNCHANGED outsideWorkflow
    /\ pc = "report"
    /\ reportCalls' = Append(reportCalls, sections)
    /\ \/ /\ pc' = "p100"
          /\ UNCHANGED <<errLog, raised>>
       \/ WorkflowFailure(<<"report error">>)
    /\ UNCHANGED <<parallel, max_workers, supplied, analysts, i, sections,
                   completed, queue, running, outcome, handled, progressLog,
                   icLog, scLog, acLog, cbFaults, results>>

(***************************************************************************)
(* backend.py: ResearchWorkflow._conduct_interviews, one loop iteration.   *)
(* r names the call of the try block that raises, if any.                  *)
(***************************************************************************)
\* Mutant: a failed interview is logged and leaves no section.
SeqAppendedSkipsFailure(name, r) ==
    CASE r = "on_progress" -> <<ErrorSection(name, CallbackError)>>
      [] r = "interview" -> <<>>
      [] r = "none" -> <<SectionText(name)>>
      [] OTHER -> <<SectionText(name), ErrorSection(name, CallbackError)>>

\* What one iteration appends to sections.
SeqAppended(name, r) ==
    CASE r = "on_progress" -> <<ErrorSection(name, CallbackError)>>
      [] r = "interview" -> <<ErrorSection(name, InterviewError(name))>>
      [] r = "none" -> <<SectionText(name)>>
      [] OTHER -> <<SectionText(name), ErrorSection(name, CallbackError)>>

conduct_interviews_iteration ==
    /\ UNCHANGED outsideWorkflow
    /\ pc = "interviews"
    /\ ~parallel
    /\ i < Len(analysts)
    /\ LET k == i + 1
           name == analysts[k]
       IN \E r \in {"none", "interview"} \cup (RaisingSlots \cap supplied) :
            /\ progressLog' = update_progress(progressLog,
                                  InterviewProgress(i, Len(analysts)))
            /\ outcome' = [outcome EXCEPT ![k] =
                              CASE r = "on_progress" -> "none"
                                [] r = "interview" -> "raise"
                                [] OTHER -> "ok"]
            /\ sections' = sections \o SeqAppended(name, r)
            /\ icLog' = IF /\ r \notin {"on_progress", "interview"}
                           /\ "on_interview_complete" \in supplied
                        THEN Append(icLog, <<name, SectionText(name)>>)
                        ELSE icLog
            /\ scLog' = IF /\ r \in {"none", "on_section_complete"}
                           /\ "on_section_complete" \in supplied
                        THEN Append(scLog, SectionText(name))
                        ELSE scLog
            /\ cbFaults' = IF r \in RaisingSlots
                           THEN cbFaults \cup {<<r, k>>} ELSE cbFaults
            /\ i' = k
    /\ UNCHANGED <<parallel, max_workers, supplied, pc, analysts, completed,
                   queue, running, handled, acLog, errLog, reportCalls, raised,
                   results>>

\* The loop is exhausted: return sections.
conduct_interviews_return ==
    /\ UNCHANGED outsideWorkflow
    /\ pc = "interviews"
    /\ ~parallel
    /\ i = Len(analysts)
    /\ pc' = "p70"
    /\ UNCHANGED <<parallel, max_workers, supplied, analysts, i, sections,
                   completed, queue, running, outcome, handled, progressLog,
                   icLog, scLog, acLog, errLog, cbFaults, reportCalls, raised,
                   results>>

(***************************************************************************)
(* backend.py: ParallelResearchWorkflow._conduct_interviews.               *)
(***************************************************************************)
\* sections = [None] * len(analysts); the executor is created (a worker
\* count below 1 makes ThreadPoolExecutor raise ValueError) and every
\* interview is submitted, in analyst order.
executor_submit ==
    /\ UNCHANGED outsideWorkflow
    /\ pc = "interviews"
    /\ parallel
    /\ IF max_workers < 1
       THEN /\ WorkflowFailure(<<"ValueError">>)
            /\ UNCHANGED <<sections, completed, queue>>
       ELSE /\ sections' = [k \in 1..Len(analysts) |-> None]
            /\ completed' = 0
            /\ queue' = [k \in 1..Len(analysts) |-> k]
            /\ pc' = "as_completed"
            /\ UNCHANGED <<errLog, raised>>
    /\ UNCHANGED <<parallel, max_workers, supplied, analysts, i, running,
                   outcome, handled, progressLog, icLog, scLog, acLog,
                   cbFaults, reportCalls, results>>

\* Mutant: one worker thread per submitted interview.
PoolSizeUnbounded == Len(analysts)

\* The number of worker threads the executor lets run at once.
PoolSize == max_workers

\* A worker thread takes the oldest queued work item.
worker_start ==
    /\ UNCHANGED outsideWorkflow
    /\ pc = "as_completed"
    /\ queue # <<>>
    /\ Cardinality(running) < PoolSize
    /\ running' = running \cup {Head(queue)}
    /\ queue' = Tail(queue)
    /\ UNCHANGED <<parallel, max_workers, supplied, pc, analysts, i, sections,
                   completed, outcome, handled, progressLog, icLog, scLog,
                   acLog, errLog, cbFaults, reportCalls, raised, results>>

\* Mutant: the worker thread reports its own interview as complete.
WorkerReportsCompletion(k, o) ==
    /\ icLog' = IF o = "ok" /\ "on_interview_complete" \in supplied
                THEN Append(icLog, <<analysts[k], SectionText(analysts[k])>>)
                ELSE icLog
    /\ UNCHANGED <<progressLog, scLog, acLog, errLog, cbFaults>>

\* What the work item of analysts[k] does to the callbacks when it ends
\* with o: the item is interview_agent.conduct_interview(analyst, topic,
\* max_turns); it is given no callbacks and invokes none.
WorkerCallbacks(k, o) ==
    UNCHANGED <<progressLog, icLog, scLog, acLog, errLog, cbFaults>>

\* conduct_interview returns or raises on its worker; the future resolves.
worker_finish ==
    /\ UNCHANGED outsideWorkflow
    /\ pc = "as_completed"
    /\ \E k \in running, o \in {"ok", "raise"} :
        /\ outcome' = [outcome EXCEPT ![k] = o]
        /\ running' = running \ {k}
        /\ WorkerCallbacks(k, o)
    /\ UNCHANGED <<parallel, max_workers, supplied, pc, analysts, i, sections,
                   completed, queue, handled, reportCalls, raised, results>>

\* Mutant: the outcome is stored by position of arrival, off by one.
SlotShifted(index) == (index % Len(analysts)) + 1

\* The slot of the sections list a resolved future's outcome is stored in:
\* future_to_index[future].
Slot(index) == index

\* One iteration of the as_completed loop, for a resolved future not yet
\* yielded. r names the call of the try block that raises, if any.
as_completed_iteration ==
    /\ UNCHANGED outsideWorkflow
    /\ pc = "as_completed"
    /\ \E index \in DOMAIN outcome \ handled :
        /\ outcome[index] # "none"
        /\ LET name == analysts[index]
               ok == outcome[index] = "ok"
           IN \E r \in IF ok
                       THEN {"none"} \cup (supplied \cap
                                {"on_progress", "on_interview_complete"})
                       ELSE {"interview"} :
                /\ sections' = [sections EXCEPT ![Slot(index)] =
                       CASE r = "none" -> SectionText(name)
                         [] r = "interview" ->
                                ErrorSection(name, InterviewError(name))
                         [] OTHER -> ErrorSection(name, CallbackError)]
                /\ completed' = completed + (IF r \in RaisingSlots THEN 2 ELSE 1)
                /\ progressLog' =
                       IF ok
                       THEN update_progress(progressLog,
                                InterviewProgress(completed + 1, Len(analysts)))
                       ELSE progressLog
                /\ icLog' = IF /\ ok
                               /\ r # "on_progress"
                               /\ "on_interview_complete" \in supplied
                            THEN Append(icLog, <<name, SectionText(name)>>)
                            ELSE icLog
                /\ cbFaults' = IF r \in RaisingSlots
                               THEN cbFaults \cup {<<r, index>>} ELSE cbFaults
                /\ handled' = handled \cup {index}
    /\ UNCHANGED <<parallel, max_workers, supplied, pc, analysts, i, queue,
                   running, outcome, scLog, acLog, errLog, reportCalls, raised,
                   results>>

\* Every future has been yielded: the executor shuts down and the slots
\* that are not None are returned.
conduct_interviews_parallel_return ==
    /\ UNCHANGED outsideWorkflow
    /\ pc = "as_completed"
    /\ handled = DOMAIN outcome
    /\ sections' = SelectSeq(sections, LAMBDA s : s # None)
    /\ pc' = "p70"
    /\ UNCHANGED <<parallel, max_workers, supplied, analysts, i, completed,
                   queue, running, outcome, handled, progressLog, icLog,
                   scLog, acLog, errLog, cbFaults, reportCalls, raised,
                   results>>

(***************************************************************************)
(* The workflow's state machine.                                           *)
(***************************************************************************)
InitWorkflow ==
    /\ parallel \in BOOLEAN
    /\ max_workers \in (IF parallel THEN 0..MaxWorkers ELSE {0})
    /\ supplied \in SUBSET WorkflowCallbacks
    /\ pc = "p10"
    /\ analysts = <<>>
    /\ i = 0
    /\ sections = <<>>
    /\ completed = 0
    /\ queue = <<>>
    /\ running = {}
    /\ outcome = <<>>
    /\ handled = {}
    /\ progressLog = <<>>
    /\ icLog = <<>>
    /\ scLog = <<>>
    /\ acLog = <<>>
    /\ errLog = <<>>
    /\ cbFaults = {}
    /\ reportCalls = <<>>
    /\ raised = None
    /\ results = <<>>

\* The other machines, idle.
IdleInterview ==
    /\ max_turns = 0
    /\ ivpc = "idle"
    /\ turn = 0
    /\ messages = <<>>
    /\ context = <<>>
    /\ calls = <<>>
    /\ searchLog = <<>>
    /\ sectionArgs = <<>>
    /\ ivRaised = None
    /\ section = None

IdleReport ==
    /\ introduction = <<>>
    /\ content = <<>>
    /\ conclusion = <<>>
    /\ body_part = <<>>
    /\ sources_part = <<>>
    /\ rppc = "idle"
    /\ final_report = <<>>

IdleServices ==
    /\ llm_api_key = ""
    /\ tavily_api_key = ""
    /\ tavily_available = FALSE
    /\ llm_ctor_fails = FALSE
    /\ search_ctor_fails = FALSE
    /\ _llm = None
    /\ _search_tool = None
    /\ llm_constructed = 0
    /\ search_constructed = 0
    /\ svphase = "idle"
    /\ svparallel = FALSE
    /\ svpc = <<>>
    /\ svLast = <<>>
    /\ validation = <<>>

IdleRetry ==
    /\ max_retries = 0
    /\ backoff_factor = 0
    /\ retry_count = 0
    /\ delay = 0
    /\ rtpc = "idle"
    /\ attempts = <<>>
    /\ sleeps = <<>>
    /\ rtResult = None

IdleSanitize ==
    /\ filename = <<>>
    /\ max_length = 0
    /\ snpc = "idle"
    /\ safe_name = <<>>
    /\ reapplied = <<>>

IdleKeys ==
    /\ env_name = ""
    /\ sidebar = FALSE
    /\ secrets_readable = FALSE
    /\ secret_entry = None
    /\ env_value = None
    /\ typed = <<>>
    /\ kmpc = "idle"
    /\ prompts = <<>>
    /\ api_key = None

IdleUI ==
    /\ passes = 0
    /\ workflow_completed = FALSE
    /\ ss_analysts = None
    /\ ss_final_report = None
    /\ research_results = None
    /\ error_message = None
    /\ lastRun = "idle"
    /\ rendered = <<>>
    /\ prevRendered = <<>>

IdleUtils == IdleRetry /\ IdleSanitize /\ IdleKeys /\ IdleUI

Init ==
    InitWorkflow /\ IdleInterview /\ IdleReport /\ IdleServices /\ IdleUtils

Next ==
    \/ Checkpoint
    \/ generate_analysts
    \/ conduct_interviews_iteration
    \/ conduct_interviews_return
    \/ executor_submit
    \/ worker_start
    \/ worker_finish
    \/ as_completed_iteration
    \/ conduct_interviews_parallel_return
    \/ generate_report

Spec == Init /\ [][Next]_vars

(***************************************************************************)
(* The parallel interview phase alone, under the scheduling the executor   *)
(* and the interpreter give: a free worker takes a queued item, a running  *)
(* interview ends (every call it makes is a blocking call that returns or  *)
(* raises, and its loop is bounded by max_turns), and the orchestrating    *)
(* thread keeps running.                                                   *)
(***************************************************************************)
InitParallel == Init /\ parallel

NextParallel ==
    \/ Checkpoint
    \/ generate_analysts
    \/ executor_submit
    \/ worker_start
    \/ worker_finish
    \/ as_completed_iteration
    \/ conduct_interviews_parallel_return
    \/ generate_report

FairSpec ==
    /\ InitParallel
    /\ [][NextParallel]_vars
    /\ WF_vars(worker_start)
    /\ WF_vars(worker_finish)
    /\ WF_vars(Checkpoint \/ generate_analysts \/ executor_submit
               \/ as_completed_iteration
               \/ conduct_interviews_parallel_return \/ generate_report)

(***************************************************************************)
(* services.py: SearchService.search and format_search_results.            *)
(* Text is a sequence of tokens; a search result is a record of a url and  *)
(* a content (a missing key reads as "", as doc.get does).                 *)
(***************************************************************************)
\* What a call came to: a list of results returned, or an exception.
Returns(found) == [raises |-> FALSE, results |-> found]
Raise == [raises |-> TRUE, results |-> <<>>]

Docs == {[url |-> "u", content |-> "c"], [url |-> "", content |-> ""]}

RECURSIVE SeqsUpTo(_, _)
SeqsUpTo(S, n) ==
    IF n = 0 THEN {<<>>}
    ELSE LET shorter == SeqsUpTo(S, n - 1)
         IN shorter \cup {Append(q, x) : q \in shorter, x \in S}

\* What search_tool.invoke(query) can do: return a list of results, or
\* raise (as does the search_tool property without a library or a key).
ToolOutcomes ==
    {Returns(found) : found \in SeqsUpTo(Docs, MaxResults)} \cup {Raise}

\* Mutant: search lets the client's exception through.
search_propagating(tool) == tool

\* SearchService.search: the results, or [] when the client raised.
search(tool) == IF tool.raises THEN Returns(<<>>) ELSE tool

\* f'<Document href="{url}"/>\n{content}\n</Document>'
formatted_doc(doc) ==
    <<"<Document href=\"", doc.url, "\"/>\n", doc.content, "\n</Document>">>

RECURSIVE Join(_, _)
Join(blocks, sep) ==
    IF blocks = <<>> THEN <<>>
    ELSE IF Len(blocks) = 1 THEN blocks[1]
    ELSE blocks[1] \o sep \o Join(Tail(blocks), sep)

\* Mutant: every list of results is rendered to the empty string.
format_search_results_blank(found) == <<>>

\* SearchService.format_search_results
format_search_results(found) ==
    IF found = <<>> THEN <<>>
    ELSE Join([k \in DOMAIN found |-> formatted_doc(found[k])],
              <<"\n\n---\n\n">>)

(***************************************************************************)
(* agents.py: InterviewAgent.conduct_interview.                            *)
(***************************************************************************)
\* for turn in range(max_turns): the next turn's question, or the loop's end.
LoopHead(t) == IF t < max_turns THEN "question" ELSE "section"

\* Mutant: the early-stop phrase does not end the loop.
AfterQuestionNoBreak(thanks) == "query"

\* if "Thank you so much for your help" in question.content: break
AfterQuestion(thanks) == IF thanks THEN "section" ELSE "query"

\* An LLM call raised: LLMService.invoke logs and re-raises, and
\* conduct_interview lets it through.
InterviewRaises(e) ==
    /\ ivpc' = "raised"
    /\ ivRaised' = e

\* _generate_question, appended to the transcript, and the early-stop test.
generate_question ==
    /\ UNCHANGED outsideInterview
    /\ ivpc = "question"
    /\ \/ \E thanks \in BOOLEAN :
            /\ calls' = Append(calls, <<"question",
                                        IF thanks THEN "thanks" ELSE "more">>)
            /\ messages' = Append(messages, <<"analyst", thanks>>)
            /\ ivpc' = AfterQuestion(thanks)
            /\ UNCHANGED ivRaised
       \/ /\ calls' = Append(calls, <<"question", "raised">>)
          /\ InterviewRaises(<<"llm">>)
          /\ UNCHANGED messages
    /\ UNCHANGED <<max_turns, turn, context, searchLog, sectionArgs, section>>

\* _generate_search_query
generate_search_query ==
    /\ UNCHANGED outsideInterview
    /\ ivpc = "query"
    /\ \/ /\ calls' = Append(calls, <<"query", "ok">>)
          /\ ivpc' = "search"
          /\ UNCHANGED ivRaised
       \/ /\ calls' = Append(calls, <<"query", "raised">>)
          /\ InterviewRaises(<<"llm">>)
    /\ UNCHANGED <<max_turns, turn, messages, context, searchLog, sectionArgs,
                   section>>

\* search_service.search, format_search_results, and the test of the
\* formatted results: a context block and an answer turn, or the next turn.
search_and_format ==
    /\ UNCHANGED outsideInterview
    /\ ivpc = "search"
    /\ \E tool \in ToolOutcomes :
        LET search_results == search(tool)
        IN /\ searchLog' = Append(searchLog, tool)
           /\ IF search_results.raises
              THEN /\ calls' = Append(calls, <<"search", "raised">>)
                   /\ InterviewRaises(<<"search">>)
                   /\ UNCHANGED <<context, turn>>
              ELSE LET formatted_results ==
                           format_search_results(search_results.results)
                   IN /\ calls' = Append(calls, <<"search", "ok">>)
                      /\ UNCHANGED ivRaised
                      /\ IF formatted_results # <<>>
                         THEN /\ context' = Append(context, formatted_results)
                              /\ ivpc' = "answer"
                              /\ UNCHANGED turn
                         ELSE /\ turn' = turn + 1
                              /\ ivpc' = LoopHead(turn + 1)
                              /\ UNCHANGED context
    /\ UNCHANGED <<max_turns, messages, sectionArgs, section>>

\* _generate_answer, appended to the transcript; the turn ends.
generate_answer ==
    /\ UNCHANGED outsideInterview
    /\ ivpc = "answer"
    /\ \/ /\ calls' = Append(calls, <<"answer", "ok">>)
          /\ messages' = Append(messages, <<"expert">>)
          /\ turn' = turn + 1
          /\ ivpc' = LoopHead(turn + 1)
          /\ UNCHANGED ivRaised
       \/ /\ calls' = Append(calls, <<"answer", "raised">>)
          /\ InterviewRaises(<<"llm">>)
          /\ UNCHANGED <<messages, turn>>
    /\ UNCHANGED <<max_turns, context, searchLog, sectionArgs, section>>

\* _write_section over the accumulated context; its text is returned.
write_section ==
    /\ UNCHANGED outsideInterview
    /\ ivpc = "section"
    /\ sectionArgs' = Append(sectionArgs, context)
    /\ \/ /\ calls' = Append(calls, <<"section", "ok">>)
          /\ section' = <<"section text", Join(context, <<"\n\n">>)>>
          /\ ivpc' = "returned"
          /\ UNCHANGED ivRaised
       \/ /\ calls' = Append(calls, <<"section", "raised">>)
          /\ InterviewRaises(<<"llm">>)
          /\ UNCHANGED section
    /\ UNCHANGED <<max_turns, turn, messages, context, searchLog>>

\* The workflow's variables, idle.
IdleWorkflow ==
    /\ parallel = FALSE
    /\ max_workers = 0
    /\ supplied = {}
    /\ pc = "idle"
    /\ analysts = <<>>
    /\ i = 0
    /\ sections = <<>>
    /\ completed = 0
    /\ queue = <<>>
    /\ running = {}
    /\ outcome = <<>>
    /\ handled = {}
    /\ progressLog = <<>>
    /\ icLog = <<>>
    /\ scLog = <<>>
    /\ acLog = <<>>
    /\ errLog = <<>>
    /\ cbFaults = {}
    /\ reportCalls = <<>>
    /\ raised = None
    /\ results = <<>>

\* conduct_interview is entered: the transcript holds the opening message.
InitInterview ==
    /\ IdleWorkflow
    /\ IdleReport
    /\ IdleServices
    /\ IdleUtils
    /\ max_turns \in 0..MaxTurns
    /\ ivpc = LoopHead(0)
    /\ turn = 0
    /\ messages = << <<"human">> >>
    /\ context = <<>>
    /\ calls = <<>>
    /\ searchLog = <<>>
    /\ sectionArgs = <<>>
    /\ ivRaised = None
    /\ section = None

NextInterview ==
    \/ generate_question
    \/ generate_search_query
    \/ search_and_format
    \/ generate_answer
    \/ write_section

SpecInterview == InitInterview /\ [][NextInterview]_vars

(***************************************************************************)
(* agents.py: ReportWriter._compile_report.                                *)
(* Text is a sequence of tokens. "## Insights" is the two tokens "## " and *)
(* "Insights", "## Sources" the two tokens "## " and "Sources", so that a  *)
(* heading can be cut or joined inside a text; "\n" and " " are the        *)
(* whitespace, "x" any other character.                                    *)
(***************************************************************************)
Alphabet == {"## ", "Insights", "Sources", "\n", " ", "x"}

INSIGHTS == <<"## ", "Insights">>                   \* "## Insights"
SOURCES == <<"## ", "Sources">>                     \* "## Sources"
SOURCES_SPLIT == <<"\n", "## ", "Sources", "\n">>   \* "\n## Sources\n"
SEPARATOR == <<"\n\n---\n\n">>                      \* "\n\n---\n\n"
SOURCES_TAIL == <<"\n", "\n", "## ", "Sources", "\n">>  \* "\n\n## Sources\n"

\* str.startswith
StartsWith(t, p) == Len(t) >= Len(p) /\ SubSeq(t, 1, Len(p)) = p

\* str.replace(old, ""): every occurrence, left to right, in one pass.
RECURSIVE Remove(_, _)
Remove(t, old) ==
    IF t = <<>> THEN <<>>
    ELSE IF StartsWith(t, old)
         THEN Remove(SubSeq(t, Len(old) + 1, Len(t)), old)
         ELSE <<Head(t)>> \o Remove(Tail(t), old)

IsSpace(c) == c \in {"\n", " "}

RECURSIVE LStrip(_)
LStrip(t) ==
    IF t # <<>> /\ IsSpace(Head(t)) THEN LStrip(Tail(t)) ELSE t

RECURSIVE RStrip(_)
RStrip(t) ==
    IF t # <<>> /\ IsSpace(t[Len(t)])
    THEN RStrip(SubSeq(t, 1, Len(t) - 1)) ELSE t

\* Mutant: the whitespace around the cleaned content is kept.
StripNothing(t) == t

\* str.strip
Strip(t) == RStrip(LStrip(t))

\* str.find, from 1; 0 when p does not occur.
Find(t, p) ==
    LET hits == {k \in 1..(Len(t) - Len(p) + 1) :
                    SubSeq(t, k, k + Len(p) - 1) = p}
    IN IF hits = {} THEN 0
       ELSE CHOOSE k \in hits : \A h \in hits : k <= h

\* p in t
Contains(t, p) == Find(t, p) # 0

\* if content.startswith("## Insights"):
\*     content = content.replace("## Insights", "").strip()
CleanContent(c) ==
    IF StartsWith(c, INSIGHTS) THEN Strip(Remove(c, INSIGHTS)) ELSE c

\* if "## Sources" in content: content, sources = content.split(
\* "\n## Sources\n", 1), the unpacking failing when the split finds nothing.
HasSources(c) == Contains(c, SOURCES) /\ Contains(c, SOURCES_SPLIT)

_compile_report(intro, c, concl) ==
    LET cleaned == CleanContent(c)
        at == Find(cleaned, SOURCES_SPLIT)
        body == IF HasSources(cleaned)
                THEN SubSeq(cleaned, 1, at - 1) ELSE cleaned
        sources == SubSeq(cleaned, at + Len(SOURCES_SPLIT), Len(cleaned))
    IN intro \o SEPARATOR \o body \o SEPARATOR \o concl
       \o (IF HasSources(cleaned) THEN SOURCES_TAIL \o sources ELSE <<>>)

\* The content written as "## Insights" + "\n" + B + "\n## Sources\n" + S.
InsightsThenSources(B, S) == INSIGHTS \o <<"\n">> \o B \o SOURCES_SPLIT \o S

Introductions == {<<>>, <<"I.">>}
Conclusions == {<<>>, <<"C.">>}

\* The call: the content is either written around a body and a sources
\* text, or any text.
InitReport ==
    /\ IdleWorkflow
    /\ IdleInterview
    /\ IdleServices
    /\ IdleUtils
    /\ introduction \in Introductions
    /\ conclusion \in Conclusions
    /\ \/ /\ body_part \in SeqsUpTo(Alphabet, MaxPart)
          /\ sources_part \in SeqsUpTo(Alphabet, MaxPart)
          /\ content = InsightsThenSources(body_part, sources_part)
          /\ rppc = "call structured"
       \/ /\ body_part = <<>>
          /\ sources_part = <<>>
          /\ content \in SeqsUpTo(Alphabet, MaxContent)
          /\ rppc = "call"
    /\ final_report = <<>>

compile_report ==
    /\ UNCHANGED outsideReport
    /\ rppc \in {"call", "call structured"}
    /\ final_report' = _compile_report(introduction, content, conclusion)
    /\ rppc' = IF rppc = "call" THEN "done" ELSE "done structured"
    /\ UNCHANGED <<introduction, content, conclusion, body_part, sources_part>>

NextReport == compile_report

SpecReport == InitReport /\ [][NextReport]_vars

(***************************************************************************)
(* services.py: LLMService.llm, SearchService.search_tool (the lazily      *)
(* initialized client handles) and ServiceManager.validate_services.       *)
(* validate_services is called by the UI before the workflow exists        *)
(* (streamlit_app.py 240), on the calling thread alone: it is one step.    *)
(* In a run the LLM handle is read first by the orchestrating thread, in   *)
(* _generate_analysts, then by the threads that conduct the interviews,    *)
(* which also read the search handle. A read that finds no handle is two   *)
(* steps, the test of the handle and the construction, and another thread  *)
(* may run in between.                                                     *)
(***************************************************************************)
\* The threads that read the handles in a run: 0 is the orchestrating
\* thread, the others conduct interviews at the same time as one another.
Threads == 0..MaxThreads

\* How the body of the llm property ends when it finds no handle:
\* ValueError without a key, the constructor's error, or a new client.
LLMInit ==
    IF llm_api_key = "" THEN "ValueError"
    ELSE IF llm_ctor_fails THEN "constructor error"
    ELSE "ok"

\* The same for the search_tool property: ImportError without the library.
SearchInit ==
    IF ~tavily_available THEN "ImportError"
    ELSE IF tavily_api_key = "" THEN "ValueError"
    ELSE IF search_ctor_fails THEN "constructor error"
    ELSE "ok"

\* The handle after a whole read of the property by one thread.
AfterRead(handle, init, fresh) ==
    IF handle = None /\ init = "ok" THEN fresh ELSE handle

\* Mutant: the property builds a client at every read.
HandleAlwaysMissing(handle) == TRUE

\* if self._llm is None / if self._search_tool is None
HandleMissing(handle) == handle = None

\* Mutant: both clients are realized inside one try block.
ValidationCoupled(llm_ok, search_ok) ==
    [llm |-> llm_ok, search |-> llm_ok /\ search_ok, raises |-> FALSE]

\* The map validate_services returns: each entry is set in its own try
\* block, whose except clause only logs.
Validation(llm_ok, search_ok) ==
    [llm |-> llm_ok, search |-> search_ok, raises |-> FALSE]

\* What the llm property, or the client behind it, came to when read with
\* this outcome of the initialization.
Accessed(init) == IF init = "ok" THEN Returns(<<>>) ELSE Raise

\* LLMService.invoke and get_structured_llm: the except clause of invoke
\* logs and re-raises, get_structured_llm has no handler.
invoke(tool) == tool

\* ServiceManager.__init__ (and LLMService.__init__, SearchService.__init__):
\* the keys given, or found in the settings, are stored, absent or not; no
\* client is built.
ServiceManager_init ==
    /\ UNCHANGED outsideServices
    /\ svphase = "new"
    /\ llm_api_key' \in {"", "sk"}
    /\ tavily_api_key' \in {"", "tvly"}
    /\ _llm' = None
    /\ _search_tool' = None
    /\ svphase' = "setup"
    /\ UNCHANGED <<tavily_available, llm_ctor_fails, search_ctor_fails,
                   llm_constructed, search_constructed, svparallel, svpc,
                   svLast, validation>>

\* validate_services, called once by the UI, before the workflow exists.
validate_services ==
    /\ UNCHANGED outsideServices
    /\ svphase = "setup"
    /\ validation = <<>>
    /\ _llm' = AfterRead(_llm, LLMInit, <<"ChatOpenAI", llm_constructed + 1>>)
    /\ llm_constructed' = llm_constructed + (IF _llm' # _llm THEN 1 ELSE 0)
    /\ _search_tool' = AfterRead(_search_tool, SearchInit,
                           <<"TavilySearchResults", search_constructed + 1>>)
    /\ search_constructed' =
           search_constructed + (IF _search_tool' # _search_tool THEN 1 ELSE 0)
    /\ validation' = <<Validation(_llm' # None, _search_tool' # None)>>
    /\ UNCHANGED <<llm_api_key, tavily_api_key, tavily_available,
                   llm_ctor_fails, search_ctor_fails, svphase, svparallel,
                   svpc, svLast>>

\* run_research starts, with either orchestrator: from the headless entry
\* point, which does not validate, or from the UI, which goes on only when
\* every entry of the validation map is true.
start_run ==
    /\ UNCHANGED outsideServices
    /\ svphase = "setup"
    /\ validation # <<>> => validation[1].llm /\ validation[1].search
    /\ svparallel' \in BOOLEAN
    /\ svphase' = "generate"
    /\ UNCHANGED <<llm_api_key, tavily_api_key, tavily_available,
                   llm_ctor_fails, search_ctor_fails, _llm, _search_tool,
                   llm_constructed, search_constructed, svpc, svLast,
                   validation>>

\* The thread t may read a handle now: the orchestrating thread while the
\* analysts are generated, the interviewing threads afterwards (one of them
\* in a sequential run).
Reads(t) ==
    /\ svpc[t] = "idle"
    /\ IF t = 0 THEN svphase = "generate"
       ELSE svphase = "run" /\ (t = 1 \/ svparallel)

\* The run after thread t's use of the LLM ended with this outcome: an
\* error in _generate_analysts ends the run.
AfterUse(t, init) ==
    IF t # 0 THEN svphase
    ELSE IF init = "ok" THEN "run" ELSE "failed"

\* LLMService.llm, the test: if self._llm is None.
llm_test ==
    /\ UNCHANGED outsideServices
    /\ \E t \in Threads :
        /\ Reads(t)
        /\ IF HandleMissing(_llm)
           THEN /\ svpc' = [svpc EXCEPT ![t] = "llm init"]
                /\ UNCHANGED <<svLast, svphase>>
           ELSE /\ svLast' = [svLast EXCEPT ![t] =
                                 <<"llm", "ok", invoke(Accessed("ok"))>>]
                /\ svphase' = AfterUse(t, "ok")
                /\ UNCHANGED svpc
    /\ UNCHANGED <<llm_api_key, tavily_api_key, tavily_available,
                   llm_ctor_fails, search_ctor_fails, _llm, _search_tool,
                   llm_constructed, search_constructed, svparallel,
                   validation>>

\* LLMService.llm, the construction: raise, or store a new client.
llm_init ==
    /\ UNCHANGED outsideServices
    /\ \E t \in Threads :
        /\ svpc[t] = "llm init"
        /\ svpc' = [svpc EXCEPT ![t] = "idle"]
        /\ svLast' = [svLast EXCEPT ![t] =
                         <<"llm", LLMInit, invoke(Accessed(LLMInit))>>]
        /\ svphase' = AfterUse(t, LLMInit)
        /\ IF LLMInit = "ok"
           THEN /\ _llm' = <<"ChatOpenAI", llm_constructed + 1>>
                /\ llm_constructed' = llm_constructed + 1
           ELSE UNCHANGED <<_llm, llm_constructed>>
    /\ UNCHANGED <<llm_api_key, tavily_api_key, tavily_available,
                   llm_ctor_fails, search_ctor_fails, _search_tool,
                   search_constructed, svparallel, validation>>

\* SearchService.search reads search_tool, the test:
\* if self._search_tool is None.
search_tool_test ==
    /\ UNCHANGED outsideServices
    /\ \E t \in Threads \ {0} :
        /\ Reads(t)
        /\ IF HandleMissing(_search_tool)
           THEN /\ svpc' = [svpc EXCEPT ![t] = "search_tool init"]
                /\ UNCHANGED svLast
           ELSE /\ svLast' = [svLast EXCEPT ![t] =
                                 <<"search_tool", "ok", search(Accessed("ok"))>>]
                /\ UNCHANGED svpc
    /\ UNCHANGED <<llm_api_key, tavily_api_key, tavily_available,
                   llm_ctor_fails, search_ctor_fails, _llm, _search_tool,
                   llm_constructed, search_constructed, svphase, svparallel,
                   validation>>

\* SearchService.search_tool, the construction, inside the try block of
\* SearchService.search.
search_tool_init ==
    /\ UNCHANGED outsideServices
    /\ \E t \in Threads :
        /\ svpc[t] = "search_tool init"
        /\ svpc' = [svpc EXCEPT ![t] = "idle"]
        /\ svLast' = [svLast EXCEPT ![t] =
                         <<"search_tool", SearchInit,
                           search(Accessed(SearchInit))>>]
        /\ IF SearchInit = "ok"
           THEN /\ _search_tool' =
                       <<"TavilySearchResults", search_constructed + 1>>
                /\ search_constructed' = search_constructed + 1
           ELSE UNCHANGED <<_search_tool, search_constructed>>
    /\ UNCHANGED <<llm_api_key, tavily_api_key, tavily_available,
                   llm_ctor_fails, search_ctor_fails, _llm, llm_constructed,
                   svphase, svparallel, validation>>

\* Before ServiceManager(...) is constructed: what the environment holds.
InitServices ==
    /\ IdleWorkflow
    /\ IdleInterview
    /\ IdleReport
    /\ IdleUtils
    /\ llm_api_key = ""
    /\ tavily_api_key = ""
    /\ tavily_available \in BOOLEAN
    /\ llm_ctor_fails \in BOOLEAN
    /\ search_ctor_fails \in BOOLEAN
    /\ _llm = None
    /\ _search_tool = None
    /\ llm_constructed = 0
    /\ search_constructed = 0
    /\ svphase = "new"
    /\ svparallel = FALSE
    /\ svpc = [t \in Threads |-> "idle"]
    /\ svLast = [t \in Threads |-> <<"none", "none", Returns(<<>>)>>]
    /\ validation = <<>>

NextServices ==
    \/ ServiceManager_init
    \/ validate_services
    \/ start_run
    \/ llm_test
    \/ llm_init
    \/ search_tool_test
    \/ search_tool_init

SpecServices == InitServices /\ [][NextServices]_vars

(***************************************************************************)
(* utils.py: retry_with_backoff. One call of the wrapper around a function *)
(* whose executions end, each on its own, with a result, with a failure    *)
(* of one of the classes in `exceptions`, or with another failure. The     *)
(* delay is 1.0 multiplied by backoff_factor, here a whole number.         *)
(***************************************************************************)
\* How an execution of the wrapped function can end.
FuncOutcomes == {"ok", "matching", "other"}

\* What execution number n returned, and what it raised.
FuncResult(n) == <<"result", n>>
FuncError(n, kind) == <<kind, n>>

\* Mutant: the wrapper gives up one failure late.
ExhaustedLate(count) == count > max_retries

\* if retry_count >= max_retries
Exhausted(count) == count >= max_retries

\* One iteration of while retry_count < max_retries: the function is
\* executed; its result is returned; a failure outside `exceptions` goes to
\* the caller as it is; a matching failure is counted and either re-raised
\* or followed by time.sleep(delay) and delay *= backoff_factor.
wrapper_iteration ==
    /\ UNCHANGED outsideRetry
    /\ rtpc = "loop"
    /\ retry_count < max_retries
    /\ \E o \in FuncOutcomes :
        LET n == Len(attempts) + 1
        IN /\ attempts' = Append(attempts, o)
           /\ CASE o = "ok" ->
                    /\ rtpc' = "returned"
                    /\ rtResult' = FuncResult(n)
                    /\ UNCHANGED <<retry_count, delay, sleeps>>
                [] o = "other" ->
                    /\ rtpc' = "raised"
                    /\ rtResult' = FuncError(n, o)
                    /\ UNCHANGED <<retry_count, delay, sleeps>>
                [] o = "matching" ->
                    /\ retry_count' = retry_count + 1
                    /\ IF Exhausted(retry_count + 1)
                       THEN /\ rtpc' = "raised"
                            /\ rtResult' = FuncError(n, o)
                            /\ UNCHANGED <<delay, sleeps>>
                       ELSE /\ sleeps' = Append(sleeps, delay)
                            /\ delay' = delay * backoff_factor
                            /\ UNCHANGED <<rtpc, rtResult>>
    /\ UNCHANGED <<max_retries, backoff_factor>>

\* The while condition is false: the wrapper's body ends without a return
\* statement, and the call returns None.
wrapper_falls_through ==
    /\ UNCHANGED outsideRetry
    /\ rtpc = "loop"
    /\ ~(retry_count < max_retries)
    /\ rtpc' = "returned"
    /\ rtResult' = None
    /\ UNCHANGED <<max_retries, backoff_factor, retry_count, delay, attempts,
                   sleeps>>

\* The wrapper is entered: retry_count = 0, delay = 1.0.
InitRetry ==
    /\ IdleWorkflow
    /\ IdleInterview
    /\ IdleReport
    /\ IdleServices
    /\ IdleSanitize
    /\ IdleKeys
    /\ IdleUI
    /\ max_retries \in 0..MaxRetries
    /\ backoff_factor \in 1..MaxBackoff
    /\ retry_count = 0
    /\ delay = 1
    /\ rtpc = "loop"
    /\ attempts = <<>>
    /\ sleeps = <<>>
    /\ rtResult = None

NextRetry ==
    \/ wrapper_iteration
    \/ wrapper_falls_through

SpecRetry == InitRetry /\ [][NextRetry]_vars

(***************************************************************************)
(* utils.py: sanitize_filename. A string is a sequence of characters: a    *)
(* letter, a digit, the space, the underscore, the hyphen, and two         *)
(* characters that are none of these.                                      *)
(***************************************************************************)
Chars == {"a", "7", " ", "_", "-", "&", "!"}

\* c.isalnum()
isalnum(c) == c \in {"a", "7"}

\* Mutant: the spaces are left as they are.
SpacesKept(name) == name

\* filename.replace(' ', '_')
SpacesReplaced(name) ==
    [k \in DOMAIN name |-> IF name[k] = " " THEN "_" ELSE name[k]]

\* ''.join(c for c in safe_name if c.isalnum() or c in ('_', '-'))
SafeChars(name) ==
    SelectSeq(name, LAMBDA c : isalnum(c) \/ c \in {"_", "-"})

\* if len(safe_name) > max_length: safe_name = safe_name[:max_length]
Truncated(name, length) ==
    IF Len(name) > length THEN SubSeq(name, 1, length) ELSE name

sanitize_filename(name, length) ==
    Truncated(SafeChars(SpacesReplaced(name)), length)

sanitize ==
    /\ UNCHANGED outsideSanitize
    /\ snpc = "call"
    /\ safe_name' = sanitize_filename(filename, max_length)
    /\ snpc' = "done"
    /\ UNCHANGED <<filename, max_length, reapplied>>

\* The result is given to sanitize_filename again, with the same max_length.
sanitize_again ==
    /\ UNCHANGED outsideSanitize
    /\ snpc = "done"
    /\ reapplied' = sanitize_filename(safe_name, max_length)
    /\ snpc' = "again"
    /\ UNCHANGED <<filename, max_length, safe_name>>

InitSanitize ==
    /\ IdleWorkflow
    /\ IdleInterview
    /\ IdleReport
    /\ IdleServices
    /\ IdleRetry
    /\ IdleKeys
    /\ IdleUI
    /\ filename \in SeqsUpTo(Chars, MaxName)
    /\ max_length \in 0..MaxLength
    /\ snpc = "call"
    /\ safe_name = <<>>
    /\ reapplied = <<>>

NextSanitize ==
    \/ sanitize
    \/ sanitize_again

SpecSanitize == InitSanitize /\ [][NextSanitize]_vars

(***************************************************************************)
(* utils.py: StreamlitAPIKeyManager.get_api_key. A key is a sequence of    *)
(* characters, <<>> being the empty string; None is no value at all.       *)
(***************************************************************************)
\* Python's truth of an Optional[str]: neither None nor "".
Truthy(value) == value # None /\ value # <<>>

\* hasattr(st, 'secrets') and env_name in st.secrets, inside the try block:
\* a store that cannot be read raises, and the except clause passes.
InSecrets == secrets_readable /\ secret_entry # None

\* container = st.sidebar if sidebar else st
Container == IF sidebar THEN "st.sidebar" ELSE "st"

get_api_key ==
    /\ UNCHANGED outsideKeys
    /\ kmpc = "call"
    /\ kmpc' = "done"
    /\ IF InSecrets
       THEN /\ api_key' = secret_entry
            /\ UNCHANGED prompts
       ELSE IF Truthy(env_value)
       THEN /\ api_key' = env_value
            /\ UNCHANGED prompts
       ELSE /\ prompts' = Append(prompts, Container)
            /\ api_key' = IF Truthy(typed) THEN typed ELSE None
    /\ UNCHANGED <<env_name, sidebar, secrets_readable, secret_entry,
                   env_value, typed>>

InitKeys ==
    /\ IdleWorkflow
    /\ IdleInterview
    /\ IdleReport
    /\ IdleServices
    /\ IdleRetry
    /\ IdleSanitize
    /\ IdleUI
    /\ env_name \in {"OPENAI_API_KEY", "TAVILY_API_KEY"}
    /\ sidebar \in BOOLEAN
    /\ secrets_readable \in BOOLEAN
    /\ secret_entry \in {None, <<>>, <<"s">>}
    /\ env_value \in {None, <<>>, <<"e">>}
    /\ typed \in {<<>>, <<"t">>}
    /\ kmpc = "call"
    /\ prompts = <<>>
    /\ api_key = None

NextKeys == get_api_key

SpecKeys == InitKeys /\ [][NextKeys]_vars

(***************************************************************************)
(* streamlit_app.py: ResearchAssistantApp.run, one script run per step.    *)
(* The session state lives across the script runs of a browser session;    *)
(* what a script run renders is rebuilt from nothing.                      *)
(***************************************************************************)
\* What the workflow started in script run n produces.
RunAnalysts(n) == <<"analysts", n>>
RunReport(n) == <<"report", n>>
\* The ResearchResults of that workflow, with its analysts and final_report.
RunResults(n) == <<"results", RunAnalysts(n), RunReport(n)>>
RunError(n, stage) == <<"error", n, stage>>

\* How run_research_workflow can end: validate_services reports a failed
\* service, the workflow raises before or after on_analyst_created, or the
\* results are returned.
RunEndings == {"validation", "before analysts", "after analysts", "ok"}

\* The blocks of the screen.
ErrorBox(message) == <<"st.error", message, None>>
ErrorBlock(message) == <<"error-message", message, None>>
Results(team, report) == <<"results", team, report>>

\* The end of run(): display_results when the workflow has completed, else
\* the error-message block when there is an error message.
ResultsOrError(done, team, report, message) ==
    IF done THEN <<Results(team, report)>>
    ELSE IF message # None THEN <<ErrorBlock(message)>>
    ELSE <<>>

\* The script runs without a research being started: nothing was submitted,
\* or the topic is empty.
run_idle ==
    /\ UNCHANGED outsideUI
    /\ passes < MaxPasses
    /\ passes' = passes + 1
    /\ lastRun' = "none"
    /\ prevRendered' = rendered
    /\ rendered' = ResultsOrError(workflow_completed, ss_analysts,
                                  ss_final_report, error_message)
    /\ UNCHANGED <<workflow_completed, ss_analysts, ss_final_report,
                   research_results, error_message>>

\* A research is started without both keys: st.error, no workflow.
run_without_keys ==
    /\ UNCHANGED outsideUI
    /\ passes < MaxPasses
    /\ passes' = passes + 1
    /\ lastRun' = "no keys"
    /\ prevRendered' = rendered
    /\ rendered' = <<ErrorBox(<<"keys">>)>>
                   \o ResultsOrError(workflow_completed, ss_analysts,
                                     ss_final_report, error_message)
    /\ UNCHANGED <<workflow_completed, ss_analysts, ss_final_report,
                   research_results, error_message>>

\* A research is started: run_research_workflow, then the end of run().
\* The analyst callback stores the analysts; a failure is caught, shown
\* with st.error and stored as the error message (after the error
\* callback stored its own message, when the workflow raised).
run_research_workflow ==
    /\ UNCHANGED outsideUI
    /\ passes < MaxPasses
    /\ passes' = passes + 1
    /\ prevRendered' = rendered
    /\ \E ending \in RunEndings :
        LET n == passes + 1
        IN /\ ss_analysts' = IF ending \in {"after analysts", "ok"}
                             THEN RunAnalysts(n) ELSE ss_analysts
           /\ IF ending = "ok"
              THEN /\ research_results' = RunResults(n)
                   /\ ss_final_report' = RunReport(n)
                   /\ workflow_completed' = TRUE
                   /\ lastRun' = "ok"
                   /\ UNCHANGED error_message
                   /\ rendered' = ResultsOrError(TRUE, ss_analysts',
                                      ss_final_report', error_message)
              ELSE /\ error_message' = RunError(n, ending)
                   /\ lastRun' = "failed"
                   /\ UNCHANGED <<research_results, ss_final_report,
                                  workflow_completed>>
                   /\ rendered' = <<ErrorBox(RunError(n, ending))>>
                                  \o ResultsOrError(workflow_completed,
                                         ss_analysts', ss_final_report,
                                         error_message')

\* ResearchAssistantApp(): initialize_session_state on a new session.
InitUI ==
    /\ IdleWorkflow
    /\ IdleInterview
    /\ IdleReport
    /\ IdleServices
    /\ IdleRetry
    /\ IdleSanitize
    /\ IdleKeys
    /\ passes = 0
    /\ workflow_completed = FALSE
    /\ ss_analysts = None
    /\ ss_final_report = None
    /\ research_results = None
    /\ error_message = None
    /\ lastRun = "none"
    /\ rendered = <<>>
    /\ prevRendered = <<>>

NextUI ==
    \/ run_idle
    \/ run_without_keys
    \/ run_research_workflow

SpecUI == InitUI /\ [][NextUI]_vars

(***************************************************************************)
(* Helpers of the properties.                                              *)
(***************************************************************************)
Range(s) == {s[k] : k \in DOMAIN s}

NonDecreasing(s) == \A a, b \in DOMAIN s : a <= b => s[a] <= s[b]

\* _conduct_interviews has returned to run_research.
InterviewsReturned == pc \in {"p70", "p85", "report", "p100", "done"}

\* What the interview of analysts[k] came to, as a section: the text it
\* returned, or the placeholder carrying its error.
InterviewOutcomeSection(k) ==
    IF outcome[k] = "ok"
    THEN <<"section", analysts[k]>>
    ELSE <<"## Error\nInterview with ", analysts[k], " failed: ",
           <<"interview error", analysts[k]>> >>

\* A section that belongs to analysts[k]: its text or a placeholder naming it.
BelongsTo(s, k) ==
    \/ s = <<"section", analysts[k]>>
    \/ /\ Len(s) = 4
       /\ s[1] = "## Error\nInterview with "
       /\ s[2] = analysts[k]
       /\ s[3] = " failed: "

RECURSIVE Pow(_, _)
Pow(b, n) == IF n = 0 THEN 1 ELSE b * Pow(b, n - 1)

(***************************************************************************)
(* C1. In the parallel orchestrator, whatever the number of analysts, the  *)
(* order in which the interviews complete and the subset of them that      *)
(* fails, the returned section list has one entry per analyst, entry k     *)
(* belongs to analysts[k], and (when no callback raised while the results  *)
(* were consumed) entry k is the outcome of the interview of analysts[k]:  *)
(* its text, or the placeholder with its error.                            *)
(***************************************************************************)
C1_SectionsAligned ==
    (parallel /\ InterviewsReturned) =>
        /\ Len(sections) = Len(analysts)
        /\ \A k \in DOMAIN analysts :
            /\ BelongsTo(sections[k], k)
            /\ cbFaults = {} => sections[k] = InterviewOutcomeSection(k)
        /\ pc = "done" =>
            /\ results[1].analysts = analysts
            /\ results[1].sections = sections

\* Three interviews, the third consumed before the first, the second failed.
C1_Witness ==
    /\ parallel
    /\ pc = "done"
    /\ cbFaults = {}
    /\ outcome = <<"ok", "raise", "ok">>
    /\ icLog = << <<3, <<"section", 3>> >>, <<1, <<"section", 1>> >> >>

(***************************************************************************)
(* C2. In both orchestrators, when the interview of exactly one of N       *)
(* analysts raises (and the others return), the interview phase returns N  *)
(* sections: the failing analyst's is the placeholder                      *)
(* "## Error\nInterview with {name} failed: {error}", the others are the   *)
(* texts their interviews returned; the interview's error is not what the  *)
(* run raises, and the report writer is called on these N sections.        *)
(***************************************************************************)
C2_FailureIsolated ==
    LET failing == {k \in DOMAIN outcome : outcome[k] = "raise"}
        passing == {k \in DOMAIN outcome : outcome[k] = "ok"}
    IN (/\ InterviewsReturned
        /\ cbFaults = {}
        /\ Cardinality(failing) = 1
        /\ failing \cup passing = DOMAIN analysts) =>
            /\ Len(sections) = Len(analysts)
            /\ \A k \in failing :
                sections[k] = <<"## Error\nInterview with ", analysts[k],
                                " failed: ", <<"interview error", analysts[k]>> >>
            /\ \A k \in passing : sections[k] = <<"section", analysts[k]>>
            /\ pc \in {"p100", "done"} => reportCalls = <<sections>>
            /\ pc = "done" => results[1].sections = sections

\* The run is never failed by an interview's error.
C2_Witness ==
    /\ ~parallel
    /\ pc = "done"
    /\ cbFaults = {}
    /\ outcome = <<"ok", "raise", "ok">>
    /\ Len(reportCalls[1]) = 3

(***************************************************************************)
(* C3. In a sequential run that succeeds with N > 0 analysts and a         *)
(* progress callback, the values passed to the callback are 10, 25, 30,    *)
(* then 30 + k*40 div N for k = 0..N-1, then 70, 85, 100: a non-decreasing *)
(* sequence ending in exactly 100. The sequence is non-decreasing at every *)
(* moment of a sequential run.                                             *)
(***************************************************************************)
C3_ProgressMonotone ==
    ~parallel =>
        /\ NonDecreasing(progressLog)
        /\ (pc = "done" /\ Len(analysts) > 0 /\ "on_progress" \in supplied) =>
            /\ progressLog =
                   <<10, 25, 30>>
                   \o [k \in 1..Len(analysts) |->
                          30 + (((k - 1) * 40) \div Len(analysts))]
                   \o <<70, 85, 100>>
            /\ progressLog[Len(progressLog)] = 100

C3_Witness ==
    /\ ~parallel
    /\ pc = "done"
    /\ Len(analysts) = 3
    /\ progressLog = <<10, 25, 30, 30, 43, 56, 70, 85, 100>>

(***************************************************************************)
(* C8. If analyst generation or report writing raises during run_research, *)
(* the error callback, when supplied, is invoked exactly once, with        *)
(* "Workflow failed: {error}"; the exception is re-raised to the caller,   *)
(* no ResearchResults is returned, and progress 100 is not reported (in a  *)
(* run whose callbacks return normally: a progress callback that raises    *)
(* during the parallel interview phase makes the completed counter run     *)
(* ahead, and the values computed from it can then reach 100).             *)
(***************************************************************************)
C8_SpineFailureFatal ==
    /\ pc = "failed" <=> raised # None
    /\ pc = "failed" => results = <<>>
    /\ pc = "done" => Len(results) = 1
    /\ raised \in {<<"analyst generation error">>, <<"report error">>} =>
        /\ errLog = IF "on_error" \in supplied
                    THEN << <<"Workflow failed: ", raised>> >> ELSE <<>>
        /\ cbFaults = {} => 100 \notin Range(progressLog)
    /\ pc \in {"gen", "report"} => raised = None /\ errLog = <<>>

C8_Witness ==
    /\ raised = <<"report error">>
    /\ cbFaults = {}
    /\ "on_error" \in supplied
    /\ Len(errLog) = 1
    /\ Len(reportCalls[1]) = 2
    /\ 85 \in Range(progressLog)

(***************************************************************************)
(* C9. The parallel orchestrator has the sequential one's contract apart   *)
(* from the progress values: the section list is the interviews' outcomes  *)
(* in analyst order, and for every interview that succeeded the            *)
(* interview-complete callback (name, section) and the section-complete    *)
(* callback (section) have been invoked, when supplied.                    *)
(***************************************************************************)
C9_SameCompletionCallbacks ==
    (InterviewsReturned /\ cbFaults = {}) =>
        /\ Len(sections) = Len(analysts)
        /\ \A k \in DOMAIN analysts :
            /\ sections[k] = InterviewOutcomeSection(k)
            /\ outcome[k] = "ok" =>
                /\ "on_interview_complete" \in supplied =>
                       <<analysts[k], sections[k]>> \in Range(icLog)
                /\ "on_section_complete" \in supplied =>
                       sections[k] \in Range(scLog)

(***************************************************************************)
(* C10. During the parallel interview phase the number of interviews       *)
(* executing at once never exceeds max_workers, whatever the number of     *)
(* analysts; a queued interview is started only when fewer than            *)
(* max_workers are executing; and every submitted interview is eventually  *)
(* started and runs to its end.                                            *)
(***************************************************************************)
C10_BoundedPool ==
    /\ [](Cardinality(running) <= max_workers)
    /\ [][queue' # queue /\ pc = "as_completed" =>
              /\ Cardinality(running) < max_workers
              /\ running' = running \cup {Head(queue)}]_vars
    /\ \A k \in 1..MaxAnalysts :
          (k \in Range(queue)) ~> (k \in running)
    /\ \A k \in 1..MaxAnalysts :
          (k \in Range(queue)) ~> (k \in DOMAIN outcome /\ outcome[k] # "none")

\* Every worker is busy while an interview still waits in the queue.
C10_Witness ==
    /\ parallel
    /\ max_workers = 2
    /\ Cardinality(running) = 2
    /\ queue = <<3>>

(***************************************************************************)
(* C4. In conduct_interview, for any max_turns, a question that contains   *)
(* "Thank you so much for your help" ends the loop: after it no search     *)
(* query, search, answer or further question is issued; the only call that *)
(* follows is the section writer's.                                        *)
(***************************************************************************)
C4_EarlyStop ==
    \A p \in DOMAIN calls :
        calls[p] = <<"question", "thanks">> =>
            /\ Len(calls) <= p + 1
            /\ Len(calls) = p + 1 => calls[p + 1][1] = "section"
            /\ ivpc \in {"section", "returned", "raised"}

\* The stop at the first of three turns, with the section written.
C4_Witness ==
    /\ max_turns = 3
    /\ calls = << <<"question", "thanks">>, <<"section", "ok">> >>
    /\ ivpc = "returned"

(***************************************************************************)
(* C5. When the search client fails, SearchService.search returns the      *)
(* empty list: no exception of a search reaches conduct_interview's        *)
(* caller. If every search of an interview failed, no answer call was made *)
(* and no context was gathered, every turn ran (max_turns questions, or    *)
(* fewer ending in the early stop), and the interview that returned made   *)
(* the section-writer call with the empty context and returned its text.   *)
(***************************************************************************)
C5_SearchDegrades ==
    LET questions == {p \in DOMAIN calls : calls[p][1] = "question"}
        stopped == \E p \in questions : calls[p][2] = "thanks"
    IN /\ ivRaised \in {None, <<"llm">>}
       /\ ivpc = "raised" => calls[Len(calls)][1] # "search"
       /\ (\A n \in DOMAIN searchLog : searchLog[n].raises) =>
            /\ context = <<>>
            /\ \A p \in DOMAIN calls : calls[p][1] # "answer"
            /\ ivpc = "returned" =>
                /\ sectionArgs = << <<>> >>
                /\ section = <<"section text", <<>> >>
                /\ calls[Len(calls)] = <<"section", "ok">>
                /\ stopped \/ Cardinality(questions) = max_turns
                /\ Cardinality(questions) = Len(searchLog) +
                                            (IF stopped THEN 1 ELSE 0)

\* Three turns, three failed searches, and the section is returned.
C5_Witness ==
    /\ max_turns = 3
    /\ searchLog = <<Raise, Raise, Raise>>
    /\ ivpc = "returned"

(***************************************************************************)
(* Where the equation of C6 does hold: _compile_report, for a content      *)
(* written as "## Insights" + newline + B + "\n## Sources\n" + S, returns  *)
(* I + "\n\n---\n\n" + B + "\n\n---\n\n" + C + "\n\n## Sources\n" + S,   *)
(* provided that B and S are not empty, B does not begin and S does not    *)
(* end with whitespace, B does not contain "## Sources", and neither B nor *)
(* S contains "## Insights". When "## Sources" does not occur in the       *)
(* content, the report is I, the separator, the cleaned content, the       *)
(* separator and C, and ends there.                                        *)
(***************************************************************************)
C6_ReportAssembled ==
    /\ (/\ rppc = "done structured"
        /\ body_part # <<>> /\ ~IsSpace(body_part[1])
        /\ sources_part # <<>> /\ ~IsSpace(sources_part[Len(sources_part)])
        /\ ~Contains(body_part, <<"## ", "Sources">>)
        /\ ~Contains(body_part, <<"## ", "Insights">>)
        /\ ~Contains(sources_part, <<"## ", "Insights">>)) =>
            final_report =
                introduction \o <<"\n\n---\n\n">> \o body_part
                \o <<"\n\n---\n\n">> \o conclusion
                \o <<"\n", "\n", "## ", "Sources", "\n">> \o sources_part
    /\ (rppc = "done" /\ ~Contains(content, <<"## ", "Sources">>)) =>
            final_report =
                introduction \o <<"\n\n---\n\n">>
                \o (IF StartsWith(content, <<"## ", "Insights">>)
                    THEN RStrip(LStrip(Remove(content, <<"## ", "Insights">>)))
                    ELSE content)
                \o <<"\n\n---\n\n">> \o conclusion

\* introduction "I.", content "## Insights\nx x\n## Sources\nx", conclusion "C."
C6_Witness ==
    /\ rppc = "done structured"
    /\ introduction = <<"I.">>
    /\ conclusion = <<"C.">>
    /\ body_part = <<"x", "x">>
    /\ sources_part = <<"x">>
    /\ final_report = <<"I.", "\n\n---\n\n", "x", "x", "\n\n---\n\n", "C.",
                        "\n", "\n", "## ", "Sources", "\n", "x">>

(***************************************************************************)
(* C6. _compile_report, for any introduction I and conclusion C and for a  *)
(* content "## Insights" + newline + B + "\n## Sources\n" + S with any B   *)
(* that does not contain "## Sources" and any S, returns exactly           *)
(* I + "\n\n---\n\n" + B + "\n\n---\n\n" + C + "\n\n## Sources\n" + S;   *)
(* when "## Sources" does not occur in the content, the report ends with   *)
(* the separator and C.                                                    *)
(***************************************************************************)
C6_AnyBodyAndSources ==
    /\ (rppc = "done structured"
        /\ ~Contains(body_part, <<"## ", "Sources">>)) =>
            final_report =
                introduction \o <<"\n\n---\n\n">> \o body_part
                \o <<"\n\n---\n\n">> \o conclusion
                \o <<"\n", "\n", "## ", "Sources", "\n">> \o sources_part
    /\ (rppc = "done" /\ ~Contains(content, <<"## ", "Sources">>)) =>
            /\ Len(final_report) >= Len(conclusion) + 1
            /\ SubSeq(final_report, Len(final_report) - Len(conclusion),
                      Len(final_report)) = <<"\n\n---\n\n">> \o conclusion

(***************************************************************************)
(* C7. validate_services never raises, and in each of the four             *)
(* combinations of the LLM client and the search client being realizable   *)
(* or not, its "llm" entry is true exactly when the LLM client could be    *)
(* realized (a key is present and the constructor works) and its "search"  *)
(* entry exactly when the search client could (library, key, constructor): *)
(* neither entry depends on the other client.                              *)
(***************************************************************************)
C7_ValidationIndependent ==
    validation # <<>> =>
        /\ validation[1].raises = FALSE
        /\ validation[1].llm <=> (llm_api_key # "" /\ ~llm_ctor_fails)
        /\ validation[1].search <=>
               (tavily_available /\ tavily_api_key # "" /\ ~search_ctor_fails)

\* The LLM key is missing and the search client is fine.
C7_Witness ==
    /\ validation = <<[llm |-> FALSE, search |-> TRUE, raises |-> FALSE]>>
    /\ llm_api_key = ""
    /\ _search_tool # None

(***************************************************************************)
(* C11. In a parallel run every callback invocation (progress,             *)
(* interview-complete, section-complete, analyst-created, error) happens   *)
(* in a step of the orchestrating thread: a step in which a worker thread  *)
(* takes a work item or ends its interview (the steps that change the set  *)
(* of running interviews) delivers nothing to any callback and records no  *)
(* callback failure. The orchestrating thread being one thread that makes  *)
(* each invocation to its end before its next step, no two invocations of  *)
(* a run overlap.                                                          *)
(***************************************************************************)
C11_CallbacksOnOrchestrator ==
    [][(parallel /\ <<progressLog, icLog, scLog, acLog, errLog, cbFaults>>'
                       # <<progressLog, icLog, scLog, acLog, errLog, cbFaults>>)
          => /\ running' = running
             /\ queue' = queue
             /\ pc \in {"p10", "p25", "p30", "p70", "p85", "p100", "gen",
                        "interviews", "as_completed", "report"}]_vars

\* A completion is delivered while another interview still runs on a worker.
C11_Witness ==
    /\ parallel
    /\ running # {}
    /\ Len(icLog) = 1
    /\ Len(progressLog) = 4

(***************************************************************************)
(* C12. For one LLMService, whatever the uses made of it in a run of       *)
(* either orchestrator (validate_services before the run, the reads of     *)
(* get_structured_llm and invoke by the orchestrating and the interviewing *)
(* threads), at most one client is ever constructed, the handle once       *)
(* stored never changes, and every use that succeeds gets that handle.     *)
(* Without an API key no handle is stored: validation reports false, and   *)
(* the first use in a run raises ValueError and ends the run.              *)
(***************************************************************************)
C12_LLMHandleOnce ==
    /\ llm_constructed <= 1
    /\ _llm \in {None, <<"ChatOpenAI", 1>>}
    /\ _llm = None <=> llm_constructed = 0
    /\ \A t \in DOMAIN svLast :
        (svLast[t][1] = "llm" /\ svLast[t][2] = "ok") =>
            _llm = <<"ChatOpenAI", 1>> /\ ~svLast[t][3].raises
    /\ llm_api_key = "" =>
        /\ _llm = None
        /\ validation # <<>> => ~validation[1].llm
        /\ svphase # "run"
        /\ svLast[0][1] = "llm" =>
            /\ svLast[0][2] = "ValueError"
            /\ svLast[0][3].raises
            /\ svphase = "failed"

\* Validated from the UI, then read by the orchestrating thread and by two
\* interviewing threads of a parallel run: one client.
C12_Witness ==
    /\ svparallel
    /\ validation # <<>>
    /\ llm_constructed = 1
    /\ svLast[0][1] = "llm"
    /\ svLast[1] = <<"llm", "ok", Returns(<<>>)>>
    /\ svLast[2] = <<"llm", "ok", Returns(<<>>)>>

(***************************************************************************)
(* C13. A missing API key does not make the construction of the services   *)
(* fail (a run fails only at a use of a client), and in a run each use of  *)
(* a client whose key is missing raises ValueError to the caller of the    *)
(* use: the caller of get_structured_llm or invoke for the LLM, the caller *)
(* of SearchService.search for the search client.                          *)
(***************************************************************************)
C13_MissingKeyRaisesAtUse ==
    /\ svphase = "failed" => svLast[0][1] = "llm"
    /\ \A t \in DOMAIN svLast :
        /\ (svLast[t][1] = "llm" /\ llm_api_key = "") =>
               svLast[t][2] = "ValueError" /\ svLast[t][3].raises
        /\ (/\ svLast[t][1] = "search_tool"
            /\ tavily_available
            /\ tavily_api_key = "") =>
               svLast[t][2] = "ValueError" /\ svLast[t][3].raises

(***************************************************************************)
(* C20. For one SearchService at most one client is ever constructed and   *)
(* the handle once stored never changes, also in a parallel run that was   *)
(* not validated first, where the first searches are issued by several     *)
(* worker threads at once.                                                 *)
(***************************************************************************)
C20_SearchHandleOnce ==
    /\ search_constructed <= 1
    /\ _search_tool \in {None, <<"TavilySearchResults", 1>>}

(***************************************************************************)
(* C14. In a call through retry_with_backoff(max_retries, backoff_factor), *)
(* the wrapped function is never executed more than max_retries times and  *)
(* never again after an execution that returned; the waits are 1,          *)
(* backoff_factor, backoff_factor^2, ..., one after each failed execution  *)
(* but the last allowed one. When every execution fails with a matching    *)
(* failure (max_retries >= 1), the call ends after exactly max_retries     *)
(* executions and max_retries - 1 waits by re-raising the last failure.    *)
(* When execution k <= max_retries is the first to return, the call        *)
(* returns its result after k executions and k - 1 waits.                  *)
(***************************************************************************)
C14_RetryContract ==
    LET n == Len(attempts)
        failed == \A p \in 1..n : attempts[p] = "matching"
    IN (rtpc # "idle") =>
        /\ n <= max_retries
        /\ \A p \in 1..(n - 1) : attempts[p] = "matching"
        /\ sleeps = [k \in 1..Len(sleeps) |-> Pow(backoff_factor, k - 1)]
        /\ (rtpc = "loop" /\ max_retries >= 1) =>
               failed /\ Len(sleeps) = n /\ n < max_retries
        /\ (rtpc # "loop" /\ failed /\ max_retries >= 1) =>
            /\ rtpc = "raised"
            /\ n = max_retries
            /\ Len(sleeps) = max_retries - 1
            /\ rtResult = <<"matching", max_retries>>
        /\ (n >= 1 /\ attempts[n] = "ok") =>
            /\ rtpc = "returned"
            /\ rtResult = <<"result", n>>
            /\ Len(sleeps) = n - 1

\* Four failures with factor 3: waits of 1, 3 and 9, then the failure.
C14_Witness ==
    /\ max_retries = 4
    /\ backoff_factor = 3
    /\ attempts = <<"matching", "matching", "matching", "matching">>
    /\ sleeps = <<1, 3, 9>>
    /\ rtpc = "raised"

C16_KeyPriority ==
    kmpc = "done" =>
        /\ (secrets_readable /\ secret_entry # None) => api_key = secret_entry
        /\ (/\ ~(secrets_readable /\ secret_entry # None)
            /\ env_value \notin {None, <<>>}) => api_key = env_value
        /\ (/\ ~(secrets_readable /\ secret_entry # None)
            /\ env_value \in {None, <<>>}
            /\ typed # <<>>) => api_key = typed
        /\ (/\ ~(secrets_readable /\ secret_entry \notin {None, <<>>})
            /\ env_value \in {None, <<>>}
            /\ typed = <<>>) => api_key = None

(***************************************************************************)
(* C17. In a session of the UI, whatever script runs came before, a script *)
(* run whose research fails (the failure being caught) renders the         *)
(* error-message block with the failure's message, and the results block   *)
(* that the script run before it displayed is rendered again, unchanged.   *)
(***************************************************************************)
C17_ErrorBlockRendered ==
    lastRun = "failed" =>
        /\ \E k \in DOMAIN rendered :
               rendered[k] = <<"error-message", error_message, None>>
        /\ \A k \in DOMAIN prevRendered :
               prevRendered[k][1] = "results" =>
                   \E j \in DOMAIN rendered : rendered[j] = prevRendered[k]

(***************************************************************************)
(* C18. In conduct_interview the formatted results of a search are         *)
(* non-empty exactly when the search returned at least one result. A       *)
(* search with results is followed by the answer call, after its formatted *)
(* results were appended to the context; a search without results is       *)
(* followed by the next question or by the section writer, and adds        *)
(* nothing to the context or the transcript. Every expert turn of the      *)
(* transcript follows a question that did not stop the interview. When the *)
(* interview returns: context blocks = expert answers <= questions <=      *)
(* max_turns (while an answer is being generated, and if that call raises, *)
(* the context is one block ahead of the answers).                         *)
(***************************************************************************)
C18_AnswerIffResults ==
    LET found(k) == search(searchLog[k]).results
        withResults == {k \in DOMAIN searchLog : Len(found(k)) >= 1}
        searchCalls == {p \in DOMAIN calls : calls[p] = <<"search", "ok">>}
        nth(p) == Cardinality({q \in searchCalls : q <= p})
        answers == Cardinality({p \in DOMAIN messages :
                                    messages[p] = <<"expert">>})
        questions == Cardinality({p \in DOMAIN messages :
                                      messages[p][1] = "analyst"})
        answering == \/ ivpc = "answer"
                     \/ /\ ivpc = "raised"
                        /\ calls[Len(calls)] = <<"answer", "raised">>
    IN (ivpc # "idle") =>
        /\ \A k \in DOMAIN searchLog :
               format_search_results(found(k)) # <<>> <=> Len(found(k)) >= 1
        /\ Len(context) = Cardinality(withResults)
        /\ \A b \in DOMAIN context :
               \E k \in withResults :
                   context[b] = format_search_results(found(k))
        /\ \A p \in searchCalls :
               p < Len(calls) =>
                   IF nth(p) \in withResults
                   THEN calls[p + 1][1] = "answer"
                   ELSE calls[p + 1][1] \in {"question", "section"}
        /\ \A p \in DOMAIN messages :
               messages[p] = <<"expert">> =>
                   p > 1 /\ messages[p - 1] = <<"analyst", FALSE>>
        /\ Len(context) = answers + (IF answering THEN 1 ELSE 0)
        /\ answers <= questions
        /\ questions <= max_turns
        /\ ivpc = "returned" =>
               Len(context) = answers /\ sectionArgs = <<context>>

\* Three turns: a search without results, one with a result, one without.
C18_Witness ==
    /\ max_turns = 3
    /\ ivpc = "returned"
    /\ Len(searchLog) = 3
    /\ searchLog[1] = Returns(<<>>)
    /\ Len(searchLog[2].results) = 1
    /\ searchLog[3] = Raise
    /\ messages = << <<"human">>, <<"analyst", FALSE>>, <<"analyst", FALSE>>,
                     <<"expert">>, <<"analyst", FALSE>> >>

(***************************************************************************)
(* C19. When the content starts with "## Insights", _compile_report        *)
(* removes that leading heading and the whitespace around what remains,    *)
(* and nothing else: a later "## Insights" in the content is still there   *)
(* in the compiled report. (Stated for a content without "## Sources".)    *)
(***************************************************************************)
C19_OnlyLeadingHeadingRemoved ==
    (/\ rppc = "done"
     /\ Len(content) >= 2
     /\ SubSeq(content, 1, 2) = <<"## ", "Insights">>
     /\ ~Contains(content, <<"## ", "Sources">>)) =>
        final_report =
            introduction \o <<"\n\n---\n\n">>
            \o RStrip(LStrip(SubSeq(content, 3, Len(content))))
            \o <<"\n\n---\n\n">> \o conclusion

(***************************************************************************)
(* C21. The interview phase of both orchestrators returns exactly one      *)
(* section per analyst, whatever interviews fail and also when a supplied  *)
(* progress, interview-complete or section-complete callback raises        *)
(* during the phase; and in the parallel orchestrator the completed        *)
(* counter never exceeds the number of analysts.                           *)
(***************************************************************************)
C21_OneSectionPerAnalyst ==
    /\ InterviewsReturned => Len(sections) = Len(analysts)
    /\ parallel => completed <= Len(analysts)

(***************************************************************************)
(* C22. In the session state of the UI, after any sequence of researches   *)
(* that succeeded or failed, whenever the workflow is marked completed     *)
(* (results are displayed), the stored analysts are the analysts of the    *)
(* stored research_results and the stored final report is its              *)
(* final_report: the three come from one run.                              *)
(***************************************************************************)
C22_SameRunDisplayed ==
    workflow_completed =>
        /\ Len(research_results) = 3
        /\ ss_analysts = research_results[2]
        /\ ss_final_report = research_results[3]

(***************************************************************************)
(* C23. For every max_retries value, a call through the retry_with_backoff *)
(* wrapper that has ended has executed the wrapped function at least once, *)
(* and it ended by returning what the last execution returned or by        *)
(* raising what the last execution raised.                                 *)
(***************************************************************************)
C23_CalledAtLeastOnce ==
    rtpc \in {"returned", "raised"} =>
        /\ Len(attempts) >= 1
        /\ rtpc = "returned" => rtResult = FuncResult(Len(attempts))
        /\ rtpc = "raised" =>
                \E kind \in {"matching", "other"} :
                    rtResult = FuncError(Len(attempts), kind)

====
